---- MODULE Spec2Model ----
(***************************************************************************)
(* Stochastic graph engine of the biome wanderer: random graph generation  *)
(* (Automaton.createRandom), the Entropy accumulator and its               *)
(* re-perturbation passes, the EffectManager with its weight primitives,   *)
(* Player.move and the App's handleMove step.                              *)
(*                                                                         *)
(* Edge weights are JavaScript numbers in the source.  They are modelled   *)
(* as exact rationals <<numerator, denominator>> in lowest terms, so a     *)
(* sum "equal to 1" is exact equality here; floating-point rounding is     *)
(* not modelled.  Entropy amounts are integers.                            *)
(***************************************************************************)
EXTENDS Integers, Sequences, FiniteSets, TLC

(***************************************************************************)
(* Bounds of the model.                                                    *)
(***************************************************************************)
\* number of biomes other than the Gateway (world.ts has 11)
NumBiomes == 2
\* raw weights Math.random() may draw for a new edge are 1/MaxRaw .. MaxRaw/MaxRaw
MaxRaw == 2

(***************************************************************************)
(* Exact rational arithmetic.                                              *)
(***************************************************************************)
RECURSIVE GCD(_, _)
GCD(a, b) == IF b = 0 THEN a ELSE GCD(b, a % b)

Norm(n, d) == IF n = 0 THEN <<0, 1>> ELSE LET g == GCD(n, d) IN <<n \div g, d \div g>>

Zero == <<0, 1>>
One == <<1, 1>>

RAdd(a, b) ==
    LET g == GCD(a[2], b[2])
        l == (a[2] \div g) * b[2]
    IN  Norm(a[1] * (l \div a[2]) + b[1] * (l \div b[2]), l)

RMul(a, b) ==
    LET g1 == IF a[1] = 0 THEN 1 ELSE GCD(a[1], b[2])
        g2 == IF b[1] = 0 THEN 1 ELSE GCD(b[1], a[2])
    IN  Norm((a[1] \div g1) * (b[1] \div g2), (a[2] \div g2) * (b[2] \div g1))

RDiv(a, b) == RMul(a, <<b[2], b[1]>>)

RLeq(a, b) == a[1] * b[2] <= b[1] * a[2]

RLess(a, b) == a[1] * b[2] < b[1] * a[2]

RECURSIVE RSum(_)
RSum(ws) == IF ws = << >> THEN Zero ELSE RAdd(Head(ws), RSum(Tail(ws)))

(***************************************************************************)
(* Sequence helpers.                                                       *)
(***************************************************************************)
Range(s) == {s[i] : i \in DOMAIN s}

RECURSIVE Flatten(_)
Flatten(ss) == IF ss = << >> THEN << >> ELSE Head(ss) \o Flatten(Tail(ss))

\* all sequences of length k of distinct elements of S
RECURSIVE Arrangements(_, _)
Arrangements(S, k) ==
    IF k = 0 THEN {<< >>}
    ELSE UNION {{<<x>> \o t : t \in Arrangements(S \ {x}, k - 1)} : x \in S}

Min(a, b) == IF a <= b THEN a ELSE b
Max(a, b) == IF a >= b THEN a ELSE b

(***************************************************************************)
(* The graph: states[i].transitions is node i's ordered edge list.  A node *)
(* is identified by its index (its biome); the Gateway is pushed last.     *)
(***************************************************************************)
Weights(ts) == [i \in DOMAIN ts |-> ts[i].weight]

Transition(target, w) ==
    [to |-> target, weight |-> w, locked |-> FALSE, modifiedByEffect |-> FALSE]

\* transition.weight = transition.weight / sum, when sum > 0
normalizeWeights(ts) ==
    LET sum == RSum(Weights(ts))
    IN  IF RLess(Zero, sum)
        THEN [i \in DOMAIN ts |-> [ts[i] EXCEPT !.weight = RDiv(ts[i].weight, sum)]]
        ELSE ts

NormalizeAll(g) == [i \in DOMAIN g |-> normalizeWeights(g[i])]

(***************************************************************************)
(* Automaton.createRandom.  Every Math.random() draw is a choice; the      *)
(* operator below is the set of graphs the function can return, each with  *)
(* the reference node (candidateStartingState) used to place the Gateway.  *)
(***************************************************************************)
\* getRandomConnectionCount returns 0..4
MaxConnectionCount == 4

RawWeights == {Norm(k, MaxRaw) : k \in 1..MaxRaw}

\* gatewayWeight = 0.005 + Math.random() * 0.045: two values of that range
GatewayWeights == {<<1, 50>>, <<1, 20>>}

\* first forEach: the edge lists one node can be given
InitialTransitions(i, n) ==
    LET possibleTargets == (1..n) \ {i}
    IN  UNION {UNION {{normalizeWeights([k \in 1..Len(selectedTargets) |->
                            Transition(selectedTargets[k], rawWeights[k])])
                       : rawWeights \in [1..Len(selectedTargets) -> RawWeights]}
                      : selectedTargets \in
                            Arrangements(possibleTargets,
                                         Min(connectionCount, Cardinality(possibleTargets)))}
               : connectionCount \in 0..MaxConnectionCount}

RECURSIVE InitialGraphs(_, _)
InitialGraphs(i, n) ==
    IF i > n THEN {<< >>}
    ELSE {<<ts>> \o rest : ts \in InitialTransitions(i, n), rest \in InitialGraphs(i + 1, n)}

\* hasIncoming answering yes for every node
hasIncoming_Always(g, i) == TRUE

hasIncoming(g, i) == \E j \in DOMAIN g : \E k \in DOMAIN g[j] : g[j][k].to = i

\* the second forEach left out
EnsureConnected_Skip(g, i, n) == {g}

\* second forEach with possibleTargets not filtered: the isolated node itself
\* may be drawn as the target
RECURSIVE EnsureConnected_AnyTarget(_, _, _)
EnsureConnected_AnyTarget(g, i, n) ==
    IF i > n THEN {g}
    ELSE IF g[i] = << >> /\ ~hasIncoming(g, i)
         THEN UNION {EnsureConnected_AnyTarget(
                         [g EXCEPT ![i] = Append(@, Transition(randomTarget, One))], i + 1, n)
                     : randomTarget \in 1..n}
         ELSE EnsureConnected_AnyTarget(g, i + 1, n)

\* second forEach, in node order: an isolated node gets one edge of weight 1.0
RECURSIVE EnsureConnected(_, _, _)
EnsureConnected(g, i, n) ==
    IF i > n THEN {g}
    ELSE IF g[i] = << >> /\ ~hasIncoming(g, i)
         THEN UNION {EnsureConnected([g EXCEPT ![i] = Append(@, Transition(randomTarget, One))],
                                     i + 1, n)
                     : randomTarget \in (1..n) \ {i}}
         ELSE EnsureConnected(g, i + 1, n)

\* the body of findNodesAtDistance's transitions.forEach: pair <<queue, distances>>
RECURSIVE exploreNeighbors(_, _, _, _)
exploreNeighbors(ts, distance, queue, distances) ==
    IF ts = << >> THEN <<queue, distances>>
    ELSE LET neighborBiome == Head(ts).to
         IN  IF neighborBiome \notin DOMAIN distances
             THEN exploreNeighbors(Tail(ts), distance,
                      Append(queue, [state |-> neighborBiome, distance |-> distance + 1]),
                      [b \in DOMAIN distances \cup {neighborBiome} |->
                          IF b = neighborBiome THEN distance + 1 ELSE distances[b]])
             ELSE exploreNeighbors(Tail(ts), distance, queue, distances)

RECURSIVE bfsDistances(_, _, _)
bfsDistances(g, queue, distances) ==
    IF queue = << >> THEN distances
    ELSE LET step == exploreNeighbors(g[Head(queue).state], Head(queue).distance,
                                      Tail(queue), distances)
         IN  bfsDistances(g, step[1], step[2])

\* findNodesAtDistance keeping the nodes one hop nearer as well
findNodesAtDistance_Nearer(g, startState, minDistance) ==
    LET distances == bfsDistances(g, <<[state |-> startState, distance |-> 0]>>,
                                  [b \in {startState} |-> 0])
    IN  {s \in DOMAIN g : s \notin DOMAIN distances \/ distances[s] >= minDistance - 1}

\* nodes at BFS distance >= minDistance from startState; an unreached node
\* has distance Infinity and is returned too
findNodesAtDistance(g, startState, minDistance) ==
    LET distances == bfsDistances(g, <<[state |-> startState, distance |-> 0]>>,
                                  [b \in {startState} |-> 0])
    IN  {s \in DOMAIN g : s \notin DOMAIN distances \/ distances[s] >= minDistance}

\* Gateway edges appended in both directions
AddGatewayEdges_Both(g, gateway, weightOf) ==
    [i \in DOMAIN g |->
        IF i \in DOMAIN weightOf THEN Append(g[i], Transition(gateway, weightOf[i]))
        ELSE IF i = gateway
             THEN [k \in 1..Cardinality(DOMAIN weightOf) |->
                      Transition(CHOOSE s \in DOMAIN weightOf :
                                     Cardinality({t \in DOMAIN weightOf : t < s}) = k - 1,
                                 One)]
             ELSE g[i]]

\* the Gateway edges appended to the chosen sources
AddGatewayEdges(g, gateway, weightOf) ==
    [i \in DOMAIN g |->
        IF i \in DOMAIN weightOf THEN Append(g[i], Transition(gateway, weightOf[i])) ELSE g[i]]

\* validStartingStates, or states[0] when there is none
StartingCandidates(g, n) ==
    LET validStartingStates == {s \in 1..n : g[s] # << >>}
    IN  IF validStartingStates # {} THEN validStartingStates ELSE {1}

\* availableNodes without the transitions.length > 0 filters
availableNodes_Unfiltered(g, n, candidateStartingState) ==
    LET candidateNodes == findNodesAtDistance(g, candidateStartingState, 3)
    IN  IF candidateNodes = {} THEN 1..n ELSE candidateNodes

\* candidateNodes with an outgoing edge, else every non-Gateway node with one
availableNodes(g, n, candidateStartingState) ==
    LET candidateNodes == findNodesAtDistance(g, candidateStartingState, 3)
        fromCandidates == {s \in candidateNodes : g[s] # << >>}
    IN  IF fromCandidates = {} THEN {s \in 1..n : g[s] # << >>} ELSE fromCandidates

\* shuffledNodes.slice(0, Math.min(incomingConnectionCount, availableNodes.length))
NodesToConnect(available, incomingConnectionCount) ==
    {S \in SUBSET available :
        Cardinality(S) = Min(incomingConnectionCount, Cardinality(available))}

\* WithGateway without the final re-normalization
WithGateway_NoRenormalize(g, n, weightOf) ==
    AddGatewayEdges(Append(g, << >>), n + 1, weightOf)

\* push the Gateway, append the edges into it, re-normalize every node
WithGateway(g, n, weightOf) ==
    NormalizeAll(AddGatewayEdges(Append(g, << >>), n + 1, weightOf))

\* createRandom from its second forEach on, the first one having built g0
createRandomFrom(g0, n, result, ref) ==
    \E connected \in EnsureConnected(g0, 1, n) :
        LET g == NormalizeAll(connected)
        IN  \E candidateStartingState \in StartingCandidates(g, n) :
            \E incomingConnectionCount \in {1, 2} :
            \E nodesToConnect \in NodesToConnect(availableNodes(g, n, candidateStartingState),
                                                 incomingConnectionCount) :
            \E weightOf \in [nodesToConnect -> GatewayWeights] :
                /\ result = WithGateway(g, n, weightOf)
                /\ ref = candidateStartingState

\* Automaton.createRandom() over biomes 1..n returns graph result, having used
\* reference node ref
createRandom(n, result, ref) ==
    \E g0 \in InitialGraphs(1, n) : createRandomFrom(g0, n, result, ref)

(***************************************************************************)
(* Program state.                                                          *)
(***************************************************************************)
VARIABLES
    states,                  \* automaton.getStates(): node i's edge list; << >> before construction
    candidate,               \* createRandom's candidateStartingState (0 before construction)
    position,                \* player.position (0: no Player yet)
    current,                 \* entropy.current
    entropyState,            \* entropy.state: "Stable" | "Shifting" | "Chaotic" ("none": no Entropy yet)
    baseWeights,             \* entropy.baseWeights, one per edge in flatMap order
    entropyReductionFactor,  \* the ad-hoc field reduceEntropyGain sets (optional rational)
    passes,                  \* processTransitions calls made by the last operation
    effects,                 \* effectManager.activeEffects, in Map insertion order
    activeEffects,           \* ids in the activeEffects array the current handleMove closure captured
    inventory,               \* names of the artifacts in player.inventory
    discoveredArtifact,      \* the App's discoveredArtifact ("null": modal closed)
    found,                   \* artifacts generateRandomArtifact has produced so far
    removed,                 \* ids of the effects the last operation removed from activeEffects
    drawn,                   \* the Math.random() value of the last handleMove's player.move()
                             \* (<< >> when the last operation was not a move)
    journal,                 \* the node_change entry the last operation added to the journal,
                             \* as <<entry>> (<< >>: it added none)
    moveFailed,              \* the last operation was a handleMove whose player.move() threw
                             \* (its catch block logged 'Move failed')
    tracked,                 \* what the EffectManager specification recorded of each active effect
                             \* when it was added: duration, node, that node's weights, and the
                             \* processTransition calls made since (counted for timed effects);
                             \* clean: the node's weights before the first of the effects now
                             \* on it; uses: times the id was added while already active, plus 1
    rawResponse,             \* the response text last handed to parseDecision, as <<text>>
                             \* (<< >>: none yet)
    decision,                \* the LLMDecision parseDecision or queryLLM last returned, as
                             \* <<decision>>
    isPlaying,               \* llmController.isPlaying
    intervalId,              \* llmController.intervalId: the tick chain whose timer it holds
                             \* (0: null)
    chains,                  \* the tick chains start() has begun, in order; each holds what its
                             \* closures captured at start() (currentPosition, activeEffects),
                             \* where it stands (phase "request": awaiting queryLLM, "delay":
                             \* in executeLLMAction's 500 ms wait, "timer": its setTimeout is
                             \* pending, "ended") and stopped: stop() was called while it was live
    requests                 \* decision requests issued so far

vars == <<states, candidate, position, current, entropyState, baseWeights,
          entropyReductionFactor, passes, effects, activeEffects, inventory,
          discoveredArtifact, found, removed, drawn, journal, moveFailed, tracked,
          rawResponse, decision, isPlaying, intervalId, chains, requests>>

\* the state of the decision client (lib/llm)
llmVars == <<rawResponse, decision, isPlaying, intervalId, chains, requests>>

\* the state of the game the decision client acts on
gameVars == <<states, candidate, position, current, entropyState, baseWeights,
              entropyReductionFactor, passes, effects, activeEffects, inventory,
              discoveredArtifact, found, removed, drawn, journal, moveFailed, tracked>>

appVars == <<activeEffects, inventory, discoveredArtifact, found, removed, drawn, journal, moveFailed, tracked>>

\* an optional value is << >> when undefined and <<v>> when it is v
Undefined == << >>
Some(v) == <<v>>

Gateway == Len(states)

SumOfWeights(ts) == RSum(Weights(ts))

\* the weights of all edges, in the order of states.flatMap(s => s.transitions)
FlatWeights(g) == Flatten([i \in DOMAIN g |-> Weights(g[i])])

RECURSIVE Offset(_, _)
Offset(g, i) == IF i = 1 THEN 0 ELSE Offset(g, i - 1) + Len(g[i - 1])

\* the graph with edge k of the flattened list given weight flat[k]
WithFlatWeights(g, flat) ==
    [i \in DOMAIN g |->
        [k \in DOMAIN g[i] |-> [g[i][k] EXCEPT !.weight = flat[Offset(g, i) + k]]]]

(***************************************************************************)
(* Entropy.                                                                *)
(***************************************************************************)
thresholds == <<31, 62, 93>>

EntropyMax == 100

\* stateOf with the boundaries compared by <=
stateOf_Inclusive(c) ==
    IF c <= 31 THEN "Stable"
    ELSE IF c <= 62 THEN "Shifting"
    ELSE "Chaotic"

\* the state update() assigns from the clamped value
stateOf(c) ==
    IF c < thresholds[1] THEN "Stable"
    ELSE IF c < thresholds[2] THEN "Shifting"
    ELSE "Chaotic"

\* clamp without the upper limit
clamp_NoUpper(c, amount) == IF c + amount < 0 THEN 0 ELSE c + amount

\* this.current = Math.max(0, Math.min(this.max, this.current + amount))
clamp(c, amount) == Max(0, Min(EntropyMax, c + amount))

\* passesRun with three independent ifs instead of the else-if chain
passesRun_Independent(before, after) ==
    (IF before < 31 /\ after >= 31 THEN 1 ELSE 0)
    + (IF before < 62 /\ after >= 62 THEN 1 ELSE 0)
    + (IF before < 93 /\ after >= 93 THEN 1 ELSE 0)

\* passesRun with the max boundary as third trigger
passesRun_MaxBoundary(before, after) ==
    IF before < 31 /\ after >= 31 THEN 1
    ELSE IF before < 62 /\ after >= 62 THEN 1
    ELSE IF before < 100 /\ after >= 100 THEN 1
    ELSE 0

\* passesRun firing on a crossing in either direction
passesRun_BothWays(before, after) ==
    IF \E t \in {31, 62, 93} : (before < t /\ after >= t) \/ (after < t /\ before >= t)
    THEN 1 ELSE 0

\* passesRun with the first trigger one below the Stable/Shifting boundary
passesRun_Early(before, after) ==
    IF before < 30 /\ after >= 30 THEN 1
    ELSE IF before < 62 /\ after >= 62 THEN 1
    ELSE IF before < 93 /\ after >= 93 THEN 1
    ELSE 0

\* the if / else-if chain of update(): how many times it calls processTransitions
passesRun(before, after) ==
    IF before < thresholds[1] /\ after >= thresholds[1] THEN 1
    ELSE IF before < thresholds[2] /\ after >= thresholds[2] THEN 1
    ELSE IF before < thresholds[3] /\ after >= thresholds[3] THEN 1
    ELSE 0

\* 1 + variation, variation = -v or +v by the sign drawn
Variation(st, sign) ==
    IF st = "Shifting" THEN (IF sign = 0 THEN <<17, 20>> ELSE <<23, 20>>)
    ELSE (IF sign = 0 THEN <<3, 5>> ELSE <<7, 5>>)

\* independent sign draws per pass: edges SignDraws apart share a draw
SignDraws == 2

\* the sign Math.random() < 0.5 gives each edge
VariationChoices(base) ==
    {[k \in DOMAIN base |-> d[((k - 1) % SignDraws) + 1]] : d \in [1..SignDraws -> {0, 1}]}

\* processTransitions perturbing the current weights instead of baseWeights
processTransitions_FromCurrent(st, base, flat, signs) ==
    IF st = "Stable" THEN [k \in DOMAIN flat |-> Zero]
    ELSE LET perturbed == [k \in DOMAIN flat |-> RMul(flat[k], Variation(st, signs[k]))]
             sum == RSum(perturbed)
         IN  IF RLess(Zero, sum)
             THEN [k \in DOMAIN flat |-> RDiv(perturbed[k], sum)]
             ELSE flat

\* processTransitions: the new flattened weights, given the regime, the base
\* weights, the current flattened weights and the signs drawn
processTransitions(st, base, flat, signs) ==
    IF st = "Stable" THEN [k \in DOMAIN flat |-> Zero]
    ELSE LET perturbed == [k \in DOMAIN base |-> RMul(base[k], Variation(st, signs[k]))]
             sum == RSum(perturbed)
         IN  IF RLess(Zero, sum)
             THEN [k \in DOMAIN flat |-> RDiv(perturbed[k], sum)]
             ELSE flat

\* new Entropy(states.flatMap(state => state.transitions))
EntropyNew(g) ==
    /\ current' = 0
    /\ entropyState' = "Stable"
    /\ baseWeights' = FlatWeights(g)
    /\ entropyReductionFactor' = Undefined

\* entropy.update(amount): the part on Entropy's fields and the edge weights,
\* applied to graph g (the graph as the caller left it)
update(g, amount) ==
    LET before == current
        after == clamp(current, amount)
    IN  /\ current' = after
        /\ entropyState' = stateOf(after)
        /\ baseWeights' = baseWeights
        /\ passes' = passesRun(before, after)
        /\ IF passesRun(before, after) > 0
           THEN \* each pass rewrites every weight from baseWeights: the last one stands
                \E signs \in VariationChoices(baseWeights) :
                    states' = WithFlatWeights(g,
                        processTransitions(stateOf(after), baseWeights, FlatWeights(g), signs))
           ELSE states' = g

(***************************************************************************)
(* Effects: the weight primitives, the item effect functions and the       *)
(* EffectManager.  An ActiveEffect is a record; modifiedTransitions maps   *)
(* a transition id <<from, to>> to the weight stored for it, stateBiome    *)
(* and duration are optional values, and onExpire names the closure       *)
(* the effect carries ("none", "unlock" node scope's edges, "clearFactor").*)
(***************************************************************************)
\* Object.values(Biomes) without the Gateway, in declaration order
biomeArray ==
    <<"Ocean", "Plains", "Forest", "Mountain", "Desert", "Swamp",
      "Taiga", "Snowy", "Beach", "River", "Lake">>

\* the biome of node i of graph g (the Gateway is pushed last)
BiomeOf(g, i) == IF i = Len(g) THEN "Gateway" ELSE biomeArray[i]

\* every node's variant is Variants.Default: nothing assigns another
VariantOf(g, i) == "Default"

getTransitionId(from, to) == <<from, to>>

ActiveEffect(id, duration) ==
    [id |-> id, duration |-> duration, modifiedTransitions |-> Undefined,
     stateBiome |-> Undefined, onExpire |-> "none", scope |-> 0]

\* storeOriginalWeights without the has() test: every call stores the current weight
storeOriginalWeights_Overwrite(ts, from, effect) ==
    [effect EXCEPT
        !.modifiedTransitions =
            Some([id \in {getTransitionId(from, ts[k].to) : k \in DOMAIN ts} |->
                ts[CHOOSE k \in DOMAIN ts : getTransitionId(from, ts[k].to) = id].weight]),
        !.stateBiome = Some(from)]

\* storeOriginalWeights: an id already in the map keeps its stored weight
storeOriginalWeights(ts, from, effect) ==
    LET old == IF effect.modifiedTransitions = Undefined
               THEN << >> ELSE effect.modifiedTransitions[1]
        ids == {getTransitionId(from, ts[k].to) : k \in DOMAIN ts}
        weightAt(id) == (CHOOSE k \in DOMAIN ts : getTransitionId(from, ts[k].to) = id
                            /\ \A j \in DOMAIN ts :
                                   getTransitionId(from, ts[j].to) = id => k <= j)
    IN  [effect EXCEPT
            !.modifiedTransitions =
                Some([id \in DOMAIN old \cup ids |->
                    IF id \in DOMAIN old THEN old[id] ELSE ts[weightAt(id)].weight]),
            !.stateBiome = Some(from)]

markModified(ts) == [k \in DOMAIN ts |-> [ts[k] EXCEPT !.modifiedByEffect = TRUE]]

\* a primitive's result: the node's new edge list and the effect
Applied(ts, effect) == [transitions |-> ts, effect |-> effect]

\* biasTransitionsTowardBiomes without the call of normalizeWeights
biasTransitionsTowardBiomes_NoNormalize(g, from, targetBiomes, biasMultiplier, effect) ==
    LET ts == g[from]
    IN  IF ts = << >> THEN Applied(ts, effect)
        ELSE Applied(
                markModified(
                    [k \in DOMAIN ts |->
                        IF BiomeOf(g, ts[k].to) \in targetBiomes
                        THEN [ts[k] EXCEPT !.weight = RMul(@, biasMultiplier)]
                        ELSE ts[k]]),
                storeOriginalWeights(ts, from, effect))

biasTransitionsTowardBiomes(g, from, targetBiomes, biasMultiplier, effect) ==
    LET ts == g[from]
    IN  IF ts = << >> THEN Applied(ts, effect)
        ELSE Applied(
                markModified(normalizeWeights(
                    [k \in DOMAIN ts |->
                        IF BiomeOf(g, ts[k].to) \in targetBiomes
                        THEN [ts[k] EXCEPT !.weight = RMul(@, biasMultiplier)]
                        ELSE ts[k]])),
                storeOriginalWeights(ts, from, effect))

biasTransitionsTowardVariants(g, from, targetVariants, biasMultiplier, effect) ==
    LET ts == g[from]
    IN  IF ts = << >> THEN Applied(ts, effect)
        ELSE Applied(
                markModified(normalizeWeights(
                    [k \in DOMAIN ts |->
                        IF VariantOf(g, ts[k].to) \in targetVariants
                        THEN [ts[k] EXCEPT !.weight = RMul(@, biasMultiplier)]
                        ELSE ts[k]])),
                storeOriginalWeights(ts, from, effect))

\* index in ts of the k-th element of [...ts].sort((a, b) => b.weight - a.weight):
\* descending by weight, ties in stored order (the sort is stable)
SortedIndex(ts, k) ==
    CHOOSE i \in DOMAIN ts :
        Cardinality({j \in DOMAIN ts :
            \/ RLess(ts[i].weight, ts[j].weight)
            \/ (ts[j].weight = ts[i].weight /\ j < i)}) = k - 1

\* swapTransitionWeights exchanging the two highest edges themselves, targets
\* included, instead of their weights
swapTransitionWeights_SwapEdges(g, from, effect) ==
    LET ts == g[from]
    IN  IF Len(ts) < 2 THEN Applied(ts, effect)
        ELSE LET first == SortedIndex(ts, 1)
                 second == SortedIndex(ts, 2)
             IN  Applied(
                    markModified([ts EXCEPT ![first] = ts[second], ![second] = ts[first]]),
                    storeOriginalWeights(ts, from, effect))

swapTransitionWeights(g, from, effect) ==
    LET ts == g[from]
    IN  IF Len(ts) < 2 THEN Applied(ts, effect)
        ELSE LET first == SortedIndex(ts, 1)
                 second == SortedIndex(ts, 2)
             IN  Applied(
                    markModified([ts EXCEPT ![first].weight = ts[second].weight,
                                            ![second].weight = ts[first].weight]),
                    storeOriginalWeights(ts, from, effect))

\* equalizeTransitionWeights storing the weights after it changed them
equalizeTransitionWeights_StoreAfter(g, from, effect) ==
    LET ts == g[from]
        equal == [k \in DOMAIN ts |-> [ts[k] EXCEPT !.weight = Norm(1, Len(ts))]]
    IN  IF ts = << >> THEN [transitions |-> ts, effect |-> effect]
        ELSE [transitions |-> markModified(equal),
              effect |-> storeOriginalWeights(equal, from, effect)]

equalizeTransitionWeights(g, from, effect) ==
    LET ts == g[from]
    IN  IF ts = << >> THEN Applied(ts, effect)
        ELSE Applied(
                markModified([k \in DOMAIN ts |-> [ts[k] EXCEPT !.weight = Norm(1, Len(ts))]]),
                storeOriginalWeights(ts, from, effect))

\* The item effect functions of items.ts, for context.currentState = node at.
\* Each gives the graph, the reduction factor and the ActiveEffect it returns.
Used(g, factor, effect) == [states |-> g, factor |-> factor, effect |-> effect]

UsedOn(g, at, factor, applied) ==
    Used([g EXCEPT ![at] = applied.transitions], factor, applied.effect)

createWhisperingCompassEffect(g, at, factor) ==
    UsedOn(g, at, factor,
        biasTransitionsTowardBiomes(g, at, {"Ocean", "River", "Lake", "Beach", "Swamp"},
                                    <<3, 2>>, ActiveEffect("whispering-compass", Some(1))))

createPetrifiedSeedEffect(g, at, factor) ==
    LET a1 == biasTransitionsTowardBiomes(g, at, {"Forest", "Taiga", "Plains"}, <<3, 2>>,
                                          ActiveEffect("petrified-seed", Some(1)))
        g1 == [g EXCEPT ![at] = a1.transitions]
    IN  UsedOn(g1, at, factor,
            biasTransitionsTowardVariants(g1, at, {"Growing", "Blooming", "Lush"},
                                          <<13, 10>>, a1.effect))

createProbabilityMirrorEffect(g, at, factor) ==
    UsedOn(g, at, factor,
        swapTransitionWeights(g, at, ActiveEffect("probability-mirror", Some(1))))

createReverseCurrentEffect(g, at, factor) ==
    Used(g, factor, ActiveEffect("reverse-current", Some(1)))

createWeightShifterEffect(g, at, factor) ==
    UsedOn(g, at, factor,
        equalizeTransitionWeights(g, at, ActiveEffect("weight-shifter", Some(1))))

createPathAnchorEffect(g, at, factor) ==
    Used([g EXCEPT ![at] = [k \in DOMAIN g[at] |-> [g[at][k] EXCEPT !.locked = TRUE]]],
         factor,
         [ActiveEffect("path-anchor", Undefined) EXCEPT !.onExpire = "unlock", !.scope = at])

\* reduceEntropyGain(context.entropy, 0.5)
createEntropyBufferEffect(g, at, factor) ==
    Used(g, Some(<<1, 2>>),
         [ActiveEffect("entropy-buffer", Some(1)) EXCEPT !.onExpire = "clearFactor"])

createThresholdKeyEffect(g, at, factor) ==
    UsedOn(g, at, factor,
        biasTransitionsTowardBiomes(g, at, {"Gateway"}, <<2, 1>>,
                                    ActiveEffect("threshold-key", Undefined)))

\* findArtifactByName(name).effect(context)
artifactEffect(name, g, at, factor) ==
    CASE name = "Whispering Compass" -> createWhisperingCompassEffect(g, at, factor)
      [] name = "Petrified Seed" -> createPetrifiedSeedEffect(g, at, factor)
      [] name = "Probability Mirror" -> createProbabilityMirrorEffect(g, at, factor)
      [] name = "Reverse Current" -> createReverseCurrentEffect(g, at, factor)
      [] name = "Weight Shifter" -> createWeightShifterEffect(g, at, factor)
      [] name = "Path Anchor" -> createPathAnchorEffect(g, at, factor)
      [] name = "Entropy Buffer" -> createEntropyBufferEffect(g, at, factor)
      [] name = "Threshold Key" -> createThresholdKeyEffect(g, at, factor)

\* EffectManager.  The manager's operations act on a record of everything
\* they can touch: the graph, the active effects, the reduction factor.
Managed(g, effs, factor) == [states |-> g, effects |-> effs, factor |-> factor]

IndexOf(effs, id) == CHOOSE i \in DOMAIN effs : effs[i].id = id

hasEffect(effs, id) == \E i \in DOMAIN effs : effs[i].id = id

\* addEffect pushing onto a list: an id already present gets a second entry
addEffect_Append(effs, effect) == Append(effs, effect)

\* Map.set: a new id goes last, an id already present keeps its place
addEffect(effs, effect) ==
    IF hasEffect(effs, effect.id)
    THEN [effs EXCEPT ![IndexOf(effs, effect.id)] = effect]
    ELSE Append(effs, effect)

getActiveEffects(effs) == effs

\* the write-back of removeEffect on the edge list of effect.stateBiome
restoreWeights(ts, from, modified) ==
    [k \in DOMAIN ts |->
        IF getTransitionId(from, ts[k].to) \in DOMAIN modified
        THEN [ts[k] EXCEPT !.weight = modified[getTransitionId(from, ts[k].to)],
                           !.modifiedByEffect = FALSE]
        ELSE ts[k]]

\* effect.onExpire()
runOnExpire(m, effect) ==
    CASE effect.onExpire = "unlock" ->
            [m EXCEPT !.states[effect.scope] =
                [k \in DOMAIN @ |-> [@[k] EXCEPT !.locked = FALSE]]]
      [] effect.onExpire = "clearFactor" -> [m EXCEPT !.factor = Undefined]
      [] OTHER -> m

\* removeEffect(effectId, automaton)
removeEffect(m, effectId) ==
    IF ~hasEffect(m.effects, effectId) THEN m
    ELSE LET i == IndexOf(m.effects, effectId)
             effect == m.effects[i]
             restored ==
                 IF effect.modifiedTransitions # Undefined /\ effect.stateBiome # Undefined
                 THEN [m EXCEPT !.states[effect.stateBiome[1]] =
                          restoreWeights(@, effect.stateBiome[1], effect.modifiedTransitions[1])]
                 ELSE m
             expired == runOnExpire(restored, effect)
         IN  [expired EXCEPT !.effects =
                 SubSeq(m.effects, 1, i - 1) \o SubSeq(m.effects, i + 1, Len(m.effects))]

RECURSIVE removeAll(_, _)
removeAll(m, ids) == IF ids = << >> THEN m ELSE removeAll(removeEffect(m, Head(ids)), Tail(ids))

\* the duration an effect has after processTransition's decrement
decremented(effect) ==
    IF effect.duration # Undefined
    THEN [effect EXCEPT !.duration = Some(@[1] - 1)]
    ELSE effect

\* expiredIds with the test duration < 0
RECURSIVE expiredIds_Late(_)
expiredIds_Late(effs) ==
    IF effs = << >> THEN << >>
    ELSE (IF Head(effs).duration # Undefined /\ Head(effs).duration[1] < 0
          THEN <<Head(effs).id>> ELSE << >>) \o expiredIds_Late(Tail(effs))

RECURSIVE expiredIds(_)
expiredIds(effs) ==
    IF effs = << >> THEN << >>
    ELSE (IF Head(effs).duration # Undefined /\ Head(effs).duration[1] <= 0
          THEN <<Head(effs).id>> ELSE << >>) \o expiredIds(Tail(effs))

\* processTransition(automaton)
processTransition(m) ==
    LET aged == [i \in DOMAIN m.effects |-> decremented(m.effects[i])]
    IN  removeAll([m EXCEPT !.effects = aged], expiredIds(aged))

(***************************************************************************)
(* Graph generation on its own: Automaton.createRandom over GenBiomes      *)
(* biomes.                                                                 *)
(***************************************************************************)
\* number of non-Gateway biomes the generator is run on by itself
GenBiomes == 3

Unbuilt ==
    /\ states = << >>
    /\ candidate = 0
    /\ position = 0
    /\ current = 0
    /\ entropyState = "none"
    /\ baseWeights = << >>
    /\ entropyReductionFactor = Undefined
    /\ passes = 0
    /\ effects = << >>
    /\ activeEffects = {}
    /\ inventory = {}
    /\ discoveredArtifact = "null"
    /\ found = 0
    /\ removed = {}
    /\ drawn = << >>
    /\ journal = << >>
    /\ moveFailed = FALSE
    /\ tracked = << >>
    /\ rawResponse = << >>
    /\ decision = << >>
    /\ isPlaying = FALSE
    /\ intervalId = 0
    /\ chains = << >>
    /\ requests = 0

Init == Unbuilt

CreateRandom ==
    /\ states = << >>
    /\ createRandom(GenBiomes, states', candidate')
    /\ UNCHANGED <<position, current, entropyState, baseWeights,
                   entropyReductionFactor, passes, effects, appVars>>
    /\ UNCHANGED llmVars

NextGen == CreateRandom

SpecGen == Init /\ [][NextGen]_vars

(***************************************************************************)
(* Graph generation over more biomes, each drawing few connections, so     *)
(* that nodes three hops from the reference node exist.                    *)
(***************************************************************************)
\* number of non-Gateway biomes of these runs
WideBiomes == 4
\* getRandomConnectionCount returns 0..WideConnectionCount in these runs
WideConnectionCount == 1

\* first forEach when every Math.random() weight is the same
WideTransitions(i, n) ==
    LET possibleTargets == (1..n) \ {i}
    IN  UNION {{normalizeWeights([k \in 1..Len(selectedTargets) |->
                                     Transition(selectedTargets[k], One)])
                : selectedTargets \in
                      Arrangements(possibleTargets,
                                   Min(connectionCount, Cardinality(possibleTargets)))}
               : connectionCount \in 0..WideConnectionCount}

RECURSIVE WideGraphs(_, _)
WideGraphs(i, n) ==
    IF i > n THEN {<< >>}
    ELSE {<<ts>> \o rest : ts \in WideTransitions(i, n), rest \in WideGraphs(i + 1, n)}

CreateRandomWide ==
    /\ states = << >>
    /\ \E g0 \in WideGraphs(1, WideBiomes) :
           createRandomFrom(g0, WideBiomes, states', candidate')
    /\ UNCHANGED <<position, current, entropyState, baseWeights,
                   entropyReductionFactor, passes, effects, appVars>>
    /\ UNCHANGED llmVars

NextGenWide == CreateRandomWide

SpecGenWide == Init /\ [][NextGenWide]_vars

(***************************************************************************)
(* The Entropy class driven through its public update(): constructed over  *)
(* a generated graph, then update called with any amount.                  *)
(***************************************************************************)
Amounts == {-100, -31, -1, 0, 1, 31, 100}

EntropyConstruct ==
    /\ states = << >>
    /\ createRandom(NumBiomes, states', candidate')
    /\ EntropyNew(states')
    /\ UNCHANGED <<position, passes, effects, appVars>>
    /\ UNCHANGED llmVars

EntropyUpdate(amount) ==
    /\ entropyState # "none"
    /\ update(states, amount)
    /\ UNCHANGED <<candidate, position, entropyReductionFactor, effects, appVars>>
    /\ UNCHANGED llmVars

NextEntropy == EntropyConstruct \/ \E amount \in Amounts : EntropyUpdate(amount)

SpecEntropy == Init /\ [][NextEntropy]_vars

\* The same, with the public processTransitions() also called directly.
ProcessTransitionsCall ==
    /\ entropyState # "none"
    /\ \E signs \in VariationChoices(baseWeights) :
           states' = WithFlatWeights(states,
               processTransitions(entropyState, baseWeights, FlatWeights(states), signs))
    /\ passes' = 1
    /\ UNCHANGED <<candidate, position, current, entropyState, baseWeights,
                   entropyReductionFactor, effects, appVars>>
    /\ UNCHANGED llmVars

NextEntropyDirect ==
    \/ EntropyConstruct
    \/ \E amount \in Amounts : EntropyUpdate(amount)
    \/ ProcessTransitionsCall

SpecEntropyDirect == Init /\ [][NextEntropyDirect]_vars

(***************************************************************************)
(* Player.move and the App: mount, handleMove, artifact pick-up, item use. *)
(***************************************************************************)
\* values Math.random() may return in Player.move
Draws == {<<0, 1>>, <<1, 2>>, <<99, 100>>}

\* artifacts generateRandomArtifact may produce in one session
MaxArtifacts == 1

\* the artifacts with a modelled effect function
ArtifactNames ==
    {"Whispering Compass", "Petrified Seed", "Probability Mirror", "Reverse Current",
     "Weight Shifter", "Path Anchor", "Entropy Buffer", "Threshold Key"}

\* the artifacts generateRandomArtifact draws from in the game specification
GameArtifacts == {"Probability Mirror", "Weight Shifter", "Path Anchor", "Entropy Buffer"}

cumulativeWeight(ts, k) == RSum(SubSeq(Weights(ts), 1, k))

\* moveIndex falling back to the first edge instead of the last
moveIndex_FallbackFirst(ts, random) ==
    IF \E k \in DOMAIN ts : RLeq(random, cumulativeWeight(ts, k))
    THEN CHOOSE k \in DOMAIN ts :
            /\ RLeq(random, cumulativeWeight(ts, k))
            /\ \A j \in 1..(k - 1) : ~RLeq(random, cumulativeWeight(ts, j))
    ELSE 1

\* index of the edge Player.move takes for draw random: the first whose
\* cumulative weight reaches it, else the last
moveIndex(ts, random) ==
    IF \E k \in DOMAIN ts : RLeq(random, cumulativeWeight(ts, k))
    THEN CHOOSE k \in DOMAIN ts :
            /\ RLeq(random, cumulativeWeight(ts, k))
            /\ \A j \in 1..(k - 1) : ~RLeq(random, cumulativeWeight(ts, j))
    ELSE Len(ts)

move(ts, random) == ts[moveIndex(ts, random)].to

EffectIds(effs) == {effs[i].id : i \in DOMAIN effs}

\* the App's lazy initial state: graph, random start node, Player, Entropy,
\* EffectManager
Mount ==
    /\ states = << >>
    /\ \E ref \in 1..NumBiomes : createRandom(NumBiomes, states', ref)
    /\ \E randomState \in {s \in DOMAIN states' : states'[s] # << >> /\ s # Len(states')} :
           position' = randomState
    /\ EntropyNew(states')
    /\ effects' = << >>
    /\ UNCHANGED <<candidate, passes, appVars>>
    /\ UNCHANGED llmVars

\* 2 * reductionFactor, reductionFactor = entropyReductionFactor || 1.0
entropyGain(factor) ==
    LET reductionFactor == IF factor = Undefined \/ factor[1] = Zero THEN One ELSE factor[1]
        gain == RMul(<<2, 1>>, reductionFactor)
    IN  gain[1] \div gain[2]

\* the effect bookkeeping of handleMove, after player.move() returned
\* newPosition: Path Anchor removal, then processTransition
effectsAfterMove(m, previous, newPosition, captured) ==
    processTransition(
        IF previous # newPosition /\ "path-anchor" \in captured
        THEN removeEffect(m, "path-anchor")
        ELSE m)

\* generateRandomArtifact(): "null" or an artifact
GeneratedArtifacts == IF found < MaxArtifacts THEN GameArtifacts \cup {"null"} ELSE {"null"}

\* the draw made after the effect bookkeeping instead of before it
newPositionOf_AfterEffects(random) ==
    move(processTransition(Managed(states, effects, entropyReductionFactor)).states[position],
         random)

\* const newPosition = player.move(), the first statement of handleMove
newPositionOf(random) == move(states[position], random)

\* the node_change entry handleMove hands to journalManager.addEntry at its
\* end, g being the edge lists at that point: none when the biome did not
\* change or previousState has no edge to newPosition
nodeChangeEntry(g, previousState, newPosition) ==
    IF /\ previousState # newPosition
       /\ \E k \in DOMAIN g[previousState] : g[previousState][k].to = newPosition
    THEN LET usedTransition ==
                 g[previousState][CHOOSE k \in DOMAIN g[previousState] :
                                      /\ g[previousState][k].to = newPosition
                                      /\ \A j \in 1..(k - 1) :
                                             g[previousState][j].to # newPosition]
         IN  Some([fromBiome |-> BiomeOf(g, previousState),
                   toBiome |-> BiomeOf(g, newPosition),
                   odds |-> RMul(usedTransition.weight, <<100, 1>>),
                   modifiedByItem |-> usedTransition.modifiedByEffect])
    ELSE Undefined

\* the handleMove closure of a render in which currentPosition and
\* activeEffects had the values given (the closure reads them; the player,
\* the automaton, the entropy and the effect manager are the live objects),
\* with Math.random() = random in Player.move
handleMoveClosure(random, currentPosition, captured) ==
    /\ position # 0
    /\ IF states[position] = << >>
       THEN \* player.move() throws before anything else ran; the catch block
            \* logs the error and resets isMoving
            /\ moveFailed' = TRUE
            /\ passes' = 0
            /\ removed' = {}
            /\ drawn' = << >> /\ journal' = << >>
            /\ UNCHANGED <<states, position, current, entropyState, baseWeights,
                           entropyReductionFactor, effects, activeEffects,
                           discoveredArtifact, found>>
       ELSE /\ LET newPosition == newPositionOf(random)
                   m == effectsAfterMove(Managed(states, effects, entropyReductionFactor),
                                         currentPosition, newPosition, captured)
               IN  /\ position' = newPosition
                   /\ effects' = m.effects
                   /\ update(m.states, entropyGain(m.factor))
                   /\ entropyReductionFactor' = Undefined
                   /\ activeEffects' = IF newPosition # position
                                       THEN EffectIds(m.effects) ELSE activeEffects
                   /\ removed' = EffectIds(effects) \ EffectIds(m.effects)
                   /\ drawn' = random
                   /\ journal' = nodeChangeEntry(states', currentPosition, newPosition)
            /\ \E artifact \in GeneratedArtifacts :
                   /\ discoveredArtifact' =
                          IF artifact # "null" THEN artifact ELSE discoveredArtifact
                   /\ found' = IF artifact # "null" THEN found + 1 ELSE found
            /\ moveFailed' = FALSE
    /\ UNCHANGED <<candidate, inventory, tracked>>

\* handleMove with player.move() called after the effect and entropy bookkeeping
handleMove_MoveLast(random) ==
    /\ position # 0
    /\ LET m == processTransition(Managed(states, effects, entropyReductionFactor))
       IN  /\ effects' = m.effects
           /\ update(m.states, entropyGain(m.factor))
           /\ entropyReductionFactor' = Undefined
           /\ removed' = EffectIds(effects) \ EffectIds(m.effects)
           /\ IF states[position] = << >>
              THEN /\ position' = position
                   /\ activeEffects' = activeEffects
                   /\ drawn' = << >> /\ journal' = << >>
                   /\ moveFailed' = TRUE
              ELSE /\ position' = move(m.states[position], random)
                   /\ activeEffects' = EffectIds(m.effects)
                   /\ drawn' = random
                   /\ journal' = nodeChangeEntry(states', position, position')
                   /\ moveFailed' = FALSE
    /\ UNCHANGED <<candidate, inventory, discoveredArtifact, found, tracked>>
    /\ UNCHANGED llmVars

\* handleMove of the current render, with Math.random() = random in Player.move
handleMove(random) ==
    /\ handleMoveClosure(random, position, activeEffects)
    /\ UNCHANGED llmVars

\* the modal's handlePickUp: handleArtifactPickUp, then onClose
handleArtifactPickUp ==
    /\ discoveredArtifact # "null"
    /\ inventory' = inventory \cup {discoveredArtifact}
    /\ discoveredArtifact' = "null"
    /\ removed' = {}
    /\ drawn' = << >> /\ journal' = << >>
    /\ moveFailed' = FALSE
    /\ UNCHANGED <<states, candidate, position, current, entropyState, baseWeights,
                   entropyReductionFactor, passes, effects, activeEffects, found, tracked>>
    /\ UNCHANGED llmVars

handleArtifactLeave ==
    /\ discoveredArtifact # "null"
    /\ discoveredArtifact' = "null"
    /\ removed' = {}
    /\ drawn' = << >> /\ journal' = << >>
    /\ moveFailed' = FALSE
    /\ UNCHANGED <<states, candidate, position, current, entropyState, baseWeights,
                   entropyReductionFactor, passes, effects, activeEffects, inventory, found,
                   tracked>>
    /\ UNCHANGED llmVars

\* using the artifact name from the inventory at the current position:
\* artifact.effect(context), removeItem, effectManager.addEffect
useItem(name) ==
    /\ position # 0
    /\ name \in inventory
    /\ LET used == artifactEffect(name, states, position, entropyReductionFactor)
       IN  /\ states' = used.states
           /\ entropyReductionFactor' = used.factor
           /\ effects' = addEffect(effects, used.effect)
    /\ inventory' = inventory \ {name}
    /\ removed' = {}
    /\ drawn' = << >> /\ journal' = << >>
    /\ moveFailed' = FALSE
    /\ UNCHANGED <<candidate, position, current, entropyState, baseWeights, passes,
                   activeEffects, discoveredArtifact, found, tracked>>
    /\ UNCHANGED llmVars

Next ==
    \/ Mount
    \/ \E random \in Draws : handleMove(random)
    \/ handleArtifactPickUp
    \/ handleArtifactLeave
    \/ \E name \in GameArtifacts : useItem(name)

Spec == Init /\ [][Next]_vars

(***************************************************************************)
(* The EffectManager and the item effect functions driven directly, on a   *)
(* generated graph without Entropy: an item effect applied at any node and *)
(* added, a plain timed or permanent effect added, removeEffect and        *)
(* processTransition called in any order.                                  *)
(***************************************************************************)
\* item effects applied in one run
MaxUses == 2
\* largest duration of a plain effect handed to addEffect
MaxDuration == 3

Durations == {Some(d) : d \in 1..MaxDuration} \cup {Undefined}

\* tracked with id mapped to v
Track(t, id, v) == [i \in DOMAIN t \cup {id} |-> IF i = id THEN v ELSE t[i]]

\* tracked restricted to the effects still active
KeepActive(t, effs) == [i \in DOMAIN t \cap EffectIds(effs) |-> t[i]]

\* indices of the active effects holding stored weights of node n
Touching(effs, n) == {i \in DOMAIN effs : effs[i].stateBiome = Some(n)}

\* the first of them in the manager's order
FirstTouching(effs, n) == CHOOSE i \in Touching(effs, n) : \A j \in Touching(effs, n) : i <= j

EffectsConstruct ==
    /\ states = << >>
    /\ \E ref \in 1..NumBiomes : createRandom(NumBiomes, states', ref)
    /\ UNCHANGED <<candidate, position, current, entropyState, baseWeights,
                   entropyReductionFactor, passes, effects, appVars>>
    /\ UNCHANGED llmVars

\* effectManager.addEffect(artifact.effect(context)), context.currentState = node at
ApplyItem(name, at) ==
    /\ states # << >>
    /\ found < MaxUses
    /\ at \in DOMAIN states
    /\ LET used == artifactEffect(name, states, at, entropyReductionFactor)
       IN  /\ states' = used.states
           /\ entropyReductionFactor' = used.factor
           /\ effects' = addEffect(effects, used.effect)
           /\ tracked' = Track(tracked, used.effect.id,
                               [duration |-> used.effect.duration, calls |-> 0,
                                at |-> at, before |-> Weights(states[at]),
                                clean |-> IF Touching(effects, at) = {}
                                          THEN Weights(states[at])
                                          ELSE tracked[effects[FirstTouching(effects, at)].id].clean,
                                uses |-> IF hasEffect(effects, used.effect.id)
                                         THEN tracked[used.effect.id].uses + 1 ELSE 1])
    /\ found' = found + 1
    /\ removed' = {}
    /\ UNCHANGED <<candidate, position, current, entropyState, baseWeights, passes,
                   activeEffects, inventory, discoveredArtifact, drawn, journal, moveFailed>>
    /\ UNCHANGED llmVars

\* effectManager.addEffect({id: 'plain', duration})
AddPlain(duration) ==
    /\ states # << >>
    /\ ~hasEffect(effects, "plain")
    /\ effects' = addEffect(effects, ActiveEffect("plain", duration))
    /\ tracked' = Track(tracked, "plain",
                        [duration |-> duration, calls |-> 0, at |-> 0, before |-> << >>,
                         clean |-> << >>, uses |-> 1])
    /\ removed' = {}
    /\ UNCHANGED <<states, candidate, position, current, entropyState, baseWeights,
                   entropyReductionFactor, passes, activeEffects, inventory,
                   discoveredArtifact, found, drawn, journal, moveFailed>>
    /\ UNCHANGED llmVars

\* effectManager.removeEffect(effectId, automaton)
RemoveEffectCall(effectId) ==
    /\ hasEffect(effects, effectId)
    /\ LET m == removeEffect(Managed(states, effects, entropyReductionFactor), effectId)
       IN  /\ states' = m.states
           /\ effects' = m.effects
           /\ entropyReductionFactor' = m.factor
           /\ tracked' = KeepActive(tracked, m.effects)
           /\ removed' = EffectIds(effects) \ EffectIds(m.effects)
    /\ UNCHANGED <<candidate, position, current, entropyState, baseWeights, passes,
                   activeEffects, inventory, discoveredArtifact, found, drawn, journal, moveFailed>>
    /\ UNCHANGED llmVars

\* effectManager.processTransition(automaton)
ProcessTransitionCall ==
    /\ effects # << >>
    /\ LET m == processTransition(Managed(states, effects, entropyReductionFactor))
       IN  /\ states' = m.states
           /\ effects' = m.effects
           /\ entropyReductionFactor' = m.factor
           /\ tracked' = KeepActive([i \in DOMAIN tracked |->
                                        IF tracked[i].duration # Undefined
                                        THEN [tracked[i] EXCEPT !.calls = @ + 1]
                                        ELSE tracked[i]], m.effects)
           /\ removed' = EffectIds(effects) \ EffectIds(m.effects)
    /\ UNCHANGED <<candidate, position, current, entropyState, baseWeights, passes,
                   activeEffects, inventory, discoveredArtifact, found, drawn, journal, moveFailed>>
    /\ UNCHANGED llmVars

NextEffects ==
    \/ EffectsConstruct
    \/ \E name \in ArtifactNames : \E at \in 1..(NumBiomes + 1) : ApplyItem(name, at)
    \/ \E duration \in Durations : AddPlain(duration)
    \/ \E effectId \in EffectIds(effects) : RemoveEffectCall(effectId)
    \/ ProcessTransitionCall

SpecEffects == Init /\ [][NextEffects]_vars

(***************************************************************************)
(* Player.move driven directly: a Player constructed at the first node of  *)
(* a hand-built graph, then move() called with any draw.                   *)
(***************************************************************************)
\* nodes of the hand-built graphs
PlayerNodes == 3

\* the edge lists a node i of a hand-built graph may have: none, one edge of
\* weight 1, or two edges with weights w and 1 - w
PlayerEdgeLists(i) ==
    LET others == (1..PlayerNodes) \ {i}
    IN  {<< >>}
        \cup {<<Transition(j, One)>> : j \in others}
        \cup UNION {{<<Transition(j, w), Transition(k, RAdd(One, <<-w[1], w[2]>>))>> :
                        k \in others \ {j}, w \in {<<1, 4>>, <<1, 2>>}} : j \in others}

\* new Player(states[0]) on a hand-built graph
PlayerConstruct ==
    /\ states = << >>
    /\ states' \in {g \in [1..PlayerNodes -> UNION {PlayerEdgeLists(i) : i \in 1..PlayerNodes}] :
                       \A i \in 1..PlayerNodes : g[i] \in PlayerEdgeLists(i)}
    /\ position' = 1
    /\ UNCHANGED <<candidate, current, entropyState, baseWeights, entropyReductionFactor,
                   passes, effects, appVars>>
    /\ UNCHANGED llmVars

\* player.move() that stays without an error at a node without edges
PlayerMove_NoThrow(random) ==
    /\ position # 0
    /\ IF states[position] = << >>
       THEN position' = position /\ drawn' = random /\ journal' = << >> /\ moveFailed' = FALSE
       ELSE /\ position' = move(states[position], random)
            /\ drawn' = random /\ journal' = << >>
            /\ moveFailed' = FALSE
    /\ UNCHANGED <<states, candidate, current, entropyState, baseWeights,
                   entropyReductionFactor, passes, effects, activeEffects, inventory,
                   discoveredArtifact, found, removed, tracked>>
    /\ UNCHANGED llmVars

\* player.move() with Math.random() = random; moveFailed: it threw
PlayerMove(random) ==
    /\ position # 0
    /\ IF states[position] = << >>
       THEN position' = position /\ drawn' = << >> /\ journal' = << >> /\ moveFailed' = TRUE
       ELSE /\ position' = move(states[position], random)
            /\ drawn' = random /\ journal' = << >>
            /\ moveFailed' = FALSE
    /\ UNCHANGED <<states, candidate, current, entropyState, baseWeights,
                   entropyReductionFactor, passes, effects, activeEffects, inventory,
                   discoveredArtifact, found, removed, tracked>>
    /\ UNCHANGED llmVars

NextPlayer == PlayerConstruct \/ \E random \in Draws : PlayerMove(random)

SpecPlayer == Init /\ [][NextPlayer]_vars

(***************************************************************************)
(* The decision client's parseDecision on its own.  A response text is a   *)
(* sequence of tokens: prose, the punctuation { } , and "key": value       *)
(* members.  parseDecision is called with any text of up to MaxTokens      *)
(* tokens.                                                                 *)
(***************************************************************************)
\* tokens of a response text handed to parseDecision
MaxTokens == 5

\* the "key": value members a response may hold
Members ==
    {<<"action", "move">>, <<"action", "use_item">>, <<"action", "fly">>,
     <<"reasoning", "x">>, <<"reasoning", "">>, <<"itemIndex", 0>>}

Tokens == {<<"text">>, <<"{">>, <<"}">>, <<",">>} \cup Members

Responses == UNION {[1..n -> Tokens] : n \in 0..MaxTokens}

\* response.match(/\{[\s\S]*?\}/): from the first { to the first } after it;
\* << >> when there is none
jsonMatch(response) ==
    LET opens == {i \in DOMAIN response : response[i] = <<"{">>}
        i == CHOOSE a \in opens : \A b \in opens : a <= b
        closes == {j \in DOMAIN response : j > i /\ response[j] = <<"}">>}
        j == CHOOSE a \in closes : \A b \in closes : a <= b
    IN  IF opens = {} THEN << >>
        ELSE IF closes = {} THEN << >>
        ELSE SubSeq(response, i, j)

\* JSON.parse accepts the matched text: members separated by commas between
\* the braces
IsJson(text) ==
    LET inner == SubSeq(text, 2, Len(text) - 1)
    IN  \/ inner = << >>
        \/ /\ Len(inner) % 2 = 1
           /\ \A k \in DOMAIN inner :
                  IF k % 2 = 1 THEN inner[k] \in Members ELSE inner[k] = <<",">>

\* property key of the object JSON.parse returns (a repeated key keeps its
\* last value); Undefined when the key is absent
Property(text, key) ==
    LET at == {k \in DOMAIN text : Len(text[k]) = 2 /\ text[k][1] = key}
    IN  IF at = {} THEN Undefined
        ELSE Some(text[CHOOSE a \in at : \A b \in at : b <= a][2])

LLMDecision(action, itemIndex, reasoning) ==
    [action |-> action, itemIndex |-> itemIndex, reasoning |-> reasoning]

\* parseDecision passing the parsed action and reasoning through unchanged
parseDecision_NoDefaults(response) ==
    LET jsonMatched == jsonMatch(response)
    IN  IF jsonMatched = << >> \/ ~IsJson(jsonMatched)
        THEN LLMDecision("move", Undefined, "")
        ELSE LLMDecision(
                IF Property(jsonMatched, "action") = Undefined THEN "undefined"
                ELSE Property(jsonMatched, "action")[1],
                Property(jsonMatched, "itemIndex"),
                IF Property(jsonMatched, "reasoning") = Undefined THEN ""
                ELSE Property(jsonMatched, "reasoning")[1])

parseDecision(response) ==
    LET jsonMatched == jsonMatch(response)
    IN  IF jsonMatched = << >>
        THEN LLMDecision("move", Undefined, "Could not parse response, defaulting to move.")
        ELSE IF ~IsJson(jsonMatched)
        THEN LLMDecision("move", Undefined, "JSON parse error, defaulting to move.")
        ELSE LLMDecision(
                IF Property(jsonMatched, "action") = Some("use_item") THEN "use_item" ELSE "move",
                Property(jsonMatched, "itemIndex"),
                IF Property(jsonMatched, "reasoning") \in {Undefined, Some("")}
                THEN "No reasoning provided."
                ELSE Property(jsonMatched, "reasoning")[1])

\* parseDecision(response) called once, with any response text
ParseDecision ==
    /\ rawResponse = << >>
    /\ \E response \in Responses :
           /\ rawResponse' = Some(response)
           /\ decision' = Some(parseDecision(response))
    /\ UNCHANGED <<isPlaying, intervalId, chains, requests>>
    /\ UNCHANGED gameVars

NextParse == ParseDecision

SpecParse == Init /\ [][NextParse]_vars

(***************************************************************************)
(* Autoplay: the LLMController driving the mounted App.  start() captures  *)
(* the getGameContext and executeLLMAction closures of the render in which *)
(* it is called; every tick of the chain it begins uses them.              *)
(***************************************************************************)
\* decision requests issued in one session
MaxRequests == 2
\* start() calls in one session
MaxStarts == 2

\* the response texts the model of the decision service answers with
LLMResponses ==
    {<< <<"text">> >>,
     << <<"{">>, <<"action", "use_item">>, <<",">>, <<"itemIndex", 0>>, <<"}">> >>}

\* a catch block answering with the use of the first inventory slot
errorDecision_UseItem == LLMDecision("use_item", Some(0), "Error: LLM request failed")

\* what queryLLM's catch block returns
errorDecision == LLMDecision("move", Undefined, "Error: LLM request failed")

\* how a decision request may end: Undefined when it fails (fetch rejected,
\* status not OK, or a body without choices), else the response text
Outcomes == {Undefined} \cup {Some(text) : text \in LLMResponses}

\* queryLLM's result for an outcome of the request
queryLLM(outcome) ==
    IF outcome = Undefined
    THEN [decision |-> errorDecision, rawResponse |-> << >>]
    ELSE [decision |-> parseDecision(outcome[1]), rawResponse |-> outcome[1]]

\* a tick chain begun by start() in a render with these values
TickChain(currentPosition, captured) ==
    [phase |-> "request", currentPosition |-> currentPosition, activeEffects |-> captured,
     stopped |-> FALSE]

Live(chain) == chain.phase # "ended"

\* the chains after stop(): clearTimeout(intervalId) cancels the timer the
\* controller holds; every live chain is marked
afterStop(cs, timer) ==
    [c \in DOMAIN cs |->
        IF cs[c].phase = "timer" /\ c = timer
        THEN [cs[c] EXCEPT !.phase = "ended", !.stopped = TRUE]
        ELSE [cs[c] EXCEPT !.stopped = @ \/ Live(cs[c])]]

\* tick() of chain c up to its first await, with the controller as the
\* caller left it
tick(cs, c, playing, timer) ==
    IF ~playing
    THEN /\ isPlaying' = playing
         /\ intervalId' = timer
         /\ chains' = [cs EXCEPT ![c].phase = "ended"]
         /\ requests' = requests
    ELSE IF \/ BiomeOf(states, cs[c].currentPosition) = "Gateway"
            \/ states[cs[c].currentPosition] = << >>
    THEN \* this.stop()
         /\ isPlaying' = FALSE
         /\ intervalId' = 0
         /\ chains' = afterStop([cs EXCEPT ![c].phase = "ended"], timer)
         /\ requests' = requests
    ELSE \* await queryLLM(this.modelId, context)
         /\ requests < MaxRequests
         /\ isPlaying' = playing
         /\ intervalId' = timer
         /\ chains' = [cs EXCEPT ![c].phase = "request"]
         /\ requests' = requests + 1

\* handleStart: llmController.start(getGameContext, executeAction)
Start ==
    /\ position # 0
    /\ ~isPlaying
    /\ Len(chains) < MaxStarts
    /\ tick(Append(chains, TickChain(position, activeEffects)), Len(chains) + 1, TRUE,
            intervalId)
    /\ UNCHANGED <<rawResponse, decision>>
    /\ UNCHANGED gameVars

\* handleStop: llmController.stop()
Stop ==
    /\ isPlaying
    /\ isPlaying' = FALSE
    /\ intervalId' = 0
    /\ chains' = afterStop(chains, intervalId)
    /\ UNCHANGED <<rawResponse, decision, requests>>
    /\ UNCHANGED gameVars

\* the use_item branch of executeLLMAction up to its 500 ms wait, in a
\* closure whose currentPosition is node at: the item in the slot, if it is
\* an artifact, takes effect there
executeUseItem(itemIndex, at) ==
    IF itemIndex = 0 /\ inventory # {}
    THEN \E name \in inventory :
            LET used == artifactEffect(name, states, at, entropyReductionFactor)
            IN  /\ states' = used.states
                /\ entropyReductionFactor' = used.factor
                /\ effects' = addEffect(effects, used.effect)
                /\ inventory' = inventory \ {name}
                /\ removed' = {}
                /\ drawn' = << >> /\ journal' = << >>
                /\ moveFailed' = FALSE
                /\ UNCHANGED <<candidate, position, current, entropyState, baseWeights,
                               passes, activeEffects, discoveredArtifact, found, tracked>>
    ELSE UNCHANGED gameVars

\* the decision request of chain c completes with the given outcome: the
\* rest of tick() up to its next wait, executeLLMAction included
Respond(c, outcome) ==
    /\ c \in DOMAIN chains
    /\ chains[c].phase = "request"
    /\ LET response == queryLLM(outcome)
           d == response.decision
       IN  /\ rawResponse' = Some(response.rawResponse)
           /\ decision' = Some(d)
           /\ requests' = requests
           /\ IF ~isPlaying
              THEN \* stopped during the API call
                   /\ chains' = [chains EXCEPT ![c].phase = "ended"]
                   /\ UNCHANGED <<isPlaying, intervalId>>
                   /\ UNCHANGED gameVars
              ELSE IF d.action = "use_item" /\ d.itemIndex # Undefined
              THEN /\ executeUseItem(d.itemIndex[1], chains[c].currentPosition)
                   /\ chains' = [chains EXCEPT ![c].phase = "delay"]
                   /\ UNCHANGED <<isPlaying, intervalId>>
              ELSE /\ \E random \in Draws :
                          handleMoveClosure(random, chains[c].currentPosition,
                                            chains[c].activeEffects)
                   /\ chains' = [chains EXCEPT ![c].phase = "timer"]
                   /\ intervalId' = c
                   /\ isPlaying' = isPlaying

\* the 500 ms wait of executeLLMAction ends: handleMove(), then tick()
\* schedules the next tick if the controller is still playing
DelayDone(c) ==
    /\ c \in DOMAIN chains
    /\ chains[c].phase = "delay"
    /\ \E random \in Draws :
           handleMoveClosure(random, chains[c].currentPosition, chains[c].activeEffects)
    /\ IF isPlaying
       THEN chains' = [chains EXCEPT ![c].phase = "timer"] /\ intervalId' = c
       ELSE chains' = [chains EXCEPT ![c].phase = "ended"] /\ intervalId' = intervalId
    /\ UNCHANGED <<rawResponse, decision, isPlaying, requests>>

\* the setTimeout of chain c fires: tick()
TimerFires(c) ==
    /\ c \in DOMAIN chains
    /\ chains[c].phase = "timer"
    /\ tick(chains, c, isPlaying, intervalId)
    /\ UNCHANGED <<rawResponse, decision>>
    /\ UNCHANGED gameVars

NextLLM ==
    \/ Mount
    \/ handleArtifactPickUp
    \/ Start
    \/ Stop
    \/ \E c \in 1..MaxStarts : \E outcome \in Outcomes : Respond(c, outcome)
    \/ \E c \in 1..MaxStarts : DelayDone(c)
    \/ \E c \in 1..MaxStarts : TimerFires(c)

SpecLLM == Init /\ [][NextLLM]_vars

(***************************************************************************)
(* Properties.                                                             *)
(***************************************************************************)
NodeSumsToOne(g) == \A i \in DOMAIN g : g[i] # << >> => SumOfWeights(g[i]) = One

\* what a re-perturbation pass leaves: the weights of the whole graph, taken as
\* one pool, sum to 1
IsPassOutput(g) == RSum(FlatWeights(g)) = One

\* a step of Entropy.update(amount), seen on Entropy's fields
IsUpdate(amount) == entropyState # "none" /\ current' = clamp(current, amount)

CrossedUp(t) == current < t /\ current' >= t

\* C1: in every state of a game (moves, entropy updates with their
\* re-perturbation passes, item uses, effect expiries) every node with an
\* outgoing edge has outgoing weights summing to 1.
C1_EveryNodeSumsToOne ==
    \A i \in DOMAIN states :
        Len(states[i]) >= 1 => RSum(Weights(states[i])) = One

\* C2: every graph createRandom returns has outgoing weights summing to 1 at
\* every node with an outgoing edge, the sources of Gateway edges included.
C2_GeneratedNodesSumToOne == NodeSumsToOne(states)

\* C2 witness: a generated graph in which a node with another edge received
\* a Gateway edge.
C2_Witness ==
    /\ states # << >>
    /\ \E i \in DOMAIN states :
           /\ Len(states[i]) >= 2
           /\ states[i][Len(states[i])].to = Gateway

\* a step of handleMove: the only operation that moves the player
IsMove == position # 0 /\ position' # position

\* C3 as stated: the draw of a step is made against the weights the step
\* leaves behind, after effect expiry and the entropy update.
C3_DrawAgainstPostStepWeights ==
    [][IsMove => position' = move(states'[position], drawn')]_vars

\* C3 amended: the draw of a step is made first, against the weights in force
\* before the step; effects are advanced and expired next; the entropy update
\* runs last, so when it fires a pass the weights the step leaves are that
\* pass's output (one pool summing to 1), whatever an expiring effect restored.
C3_DrawThenEffectsThenEntropy ==
    [][IsMove =>
          /\ position' = move(states[position], drawn')
          /\ passes' > 0 => IsPassOutput(states')]_vars

\* C3 witness: a step in which an effect expired and a pass fired.
C3_Witness == passes > 0 /\ removed # {}

\* C4: an update call taking current from below 31 to 31 or above runs exactly
\* one pass, whatever else it crosses, and makes the regime Shifting when the
\* new value is below 62; a call that stays at or above 31 and crosses neither
\* 62 nor 93 runs none.
C4_OnePassPerCrossing ==
    [][\A amount \in Amounts :
          IsUpdate(amount) =>
              /\ CrossedUp(31) =>
                    /\ passes' = 1
                    /\ entropyState = "Stable"
                    /\ current' < 62 => entropyState' = "Shifting"
              /\ (current >= 31 /\ current' >= 31 /\ ~CrossedUp(62) /\ ~CrossedUp(93))
                    => passes' = 0]_vars

\* C4 witness: a call took current from below 31 onto 31 and ran its one pass.
C4_Witness == current = 31 /\ passes = 1

\* C5 as stated: reaching 100 from below fires a pass, and above 62 nothing
\* else does.
C5_MaxBoundaryFires ==
    [][\A amount \in Amounts :
          IsUpdate(amount) =>
              /\ (current < 100 /\ current' = 100) => passes' >= 1
              /\ passes' >= 1 =>
                    CrossedUp(31) \/ CrossedUp(62) \/ (current < 100 /\ current' = 100)]_vars

\* C5 amended: a call fires a pass exactly when it takes current upward
\* through 31, 62 or 93; the pass rewrites every edge; reaching 100 from 93 or
\* above fires none.
C5_ThirdTriggerIs93 ==
    [][\A amount \in Amounts :
          IsUpdate(amount) =>
              /\ passes' >= 1 <=> (CrossedUp(31) \/ CrossedUp(62) \/ CrossedUp(93))
              /\ passes' >= 1 => IsPassOutput(states')
              /\ (current >= 93 /\ current' = 100) => passes' = 0]_vars

\* C5 witness: a call that crossed 93 and nothing else, having fired a pass.
C5_Witness == current = 93 /\ passes = 1

\* C6: the regime is Stable iff current < 31, Shifting iff 31 <= current < 62,
\* Chaotic iff current >= 62.
C6_RegimeMatchesCurrent ==
    entropyState # "none" =>
        /\ entropyState = "Stable" <=> current < 31
        /\ entropyState = "Shifting" <=> (31 <= current /\ current < 62)
        /\ entropyState = "Chaotic" <=> current >= 62

\* C6 witness: current sits on the first boundary after having been above it
\* (the weights carry a pass).
C6_Witness == current = 31 /\ entropyState = "Shifting" /\ passes = 0

\* C7: 0 <= current <= 100 after any sequence of update calls.
C7_CurrentWithinBounds == 0 <= current /\ current <= 100

\* C7 witness: current clamped at the maximum by a call that did not cross a
\* threshold.
C7_Witness == current = 100 /\ passes = 0

\* C8: an update call with a zero or negative amount runs no pass and leaves
\* every edge weight as it was.
C8_DownwardNeverPerturbs ==
    [][\A amount \in Amounts :
          (amount <= 0 /\ IsUpdate(amount)) => (passes' = 0 /\ states' = states)]_vars

\* C8 witness: current is back below 31, the regime Stable, and the weights
\* still those of an earlier pass.
C8_Witness ==
    /\ entropyState = "Stable"
    /\ current < 31
    /\ FlatWeights(states) # baseWeights

\* C9: the Weight Shifter sets each of a node's n >= 1 outgoing weights to
\* 1/n, and removeEffect('weight-shifter', automaton) puts back the weights
\* the node had before the effect was applied.
C9_EqualizeThenRestore ==
    [][/\ \A at \in 1..(NumBiomes + 1) :
              ApplyItem("Weight Shifter", at) =>
                  \A k \in DOMAIN states[at] :
                      states'[at][k].weight = <<1, Len(states[at])>>
       /\ (hasEffect(effects, "weight-shifter") /\ RemoveEffectCall("weight-shifter")) =>
              Weights(states'[tracked["weight-shifter"].at])
                  = tracked["weight-shifter"].before]_vars

\* C9 witness: the Weight Shifter was removed from a node that has unequal
\* weights again.
C9_Witness ==
    /\ "weight-shifter" \in removed
    /\ \E i \in DOMAIN states :
           /\ Len(states[i]) >= 2
           /\ states[i][1].weight # states[i][2].weight
           /\ \A k \in DOMAIN states[i] : ~states[i][k].modifiedByEffect

\* C10: an effect is active right after addEffect; one added with duration d
\* is removed by the d-th processTransition call and by none before; one with
\* undefined duration is neither removed nor changed by processTransition.
C10_ExpiresAfterDurationCalls ==
    [][/\ \A duration \in Durations :
              AddPlain(duration) => hasEffect(getActiveEffects(effects'), "plain")
       /\ \A i \in DOMAIN effects' :
              LET t == tracked'[effects'[i].id]
              IN  t.duration # Undefined => t.calls < t.duration[1]
       /\ ProcessTransitionCall =>
              \A i \in DOMAIN effects :
                  LET t == tracked[effects[i].id]
                  IN  /\ effects[i].id \in removed' =>
                          (t.duration # Undefined /\ t.calls + 1 = t.duration[1])
                      /\ t.duration = Undefined =>
                          \E j \in DOMAIN effects' : effects'[j] = effects[i]]_vars

\* C10 witness: a plain effect added with the largest duration has just been
\* removed.
C10_Witness == "plain" \in removed

\* C11: when a call removes every effect holding stored weights of a node
\* (none of them re-added while active), the node's outgoing weights are those
\* it had before the first of these effects was applied.
C11_RestoredAfterAllExpire ==
    [][\A n \in DOMAIN states :
          (/\ Touching(effects, n) # {}
           /\ \A i \in Touching(effects, n) :
                  effects[i].id \in removed' /\ tracked[effects[i].id].uses = 1)
              => Weights(states'[n])
                     = tracked[effects[FirstTouching(effects, n)].id].clean]_vars

\* C12: the snapshot of an active Petrified Seed holds, for each edge of its
\* node, the weight from before its first primitive ran, and a call that
\* removes this effect alone leaves the node with exactly those weights.
C12_SnapshotKeepsFirstWeights ==
    [][/\ \A i \in DOMAIN effects' :
              effects'[i].id = "petrified-seed" =>
                  LET t == tracked'["petrified-seed"]
                  IN  \A k \in DOMAIN states'[t.at] :
                          effects'[i].modifiedTransitions[1][
                              getTransitionId(t.at, states'[t.at][k].to)] = t.before[k]
       /\ removed' = {"petrified-seed"} =>
              Weights(states'[tracked["petrified-seed"].at])
                  = tracked["petrified-seed"].before]_vars

\* C12 witness: a Petrified Seed was removed from a node with an edge to
\* Plains and another edge, both of which its first primitive had changed.
C12_Witness ==
    /\ removed = {"petrified-seed"}
    /\ \E n \in DOMAIN states :
           /\ Len(states[n]) >= 2
           /\ \E k \in DOMAIN states[n] : BiomeOf(states, states[n][k].to) = "Plains"
           /\ \A k \in DOMAIN states[n] : ~states[n][k].modifiedByEffect

\* C13: a re-perturbation pass leaves the weight of every edge that a Path
\* Anchor holds locked as it was before the pass.
C13_LockedEdgesSkipped ==
    [][(IsMove /\ passes' > 0) =>
          \A n \in DOMAIN states : \A k \in DOMAIN states[n] :
              (states[n][k].locked /\ states'[n][k].locked)
                  => states'[n][k].weight = states[n][k].weight]_vars

\* C14: the step that moves the player away from the node a Path Anchor was
\* activated at removes the effect and unlocks that node's edges.
C14_AnchorRemovedOnLeaving ==
    [][(/\ IsMove
        /\ \E i \in DOMAIN effects :
               effects[i].id = "path-anchor" /\ effects[i].scope = position)
          => /\ ~hasEffect(effects', "path-anchor")
             /\ \A k \in DOMAIN states'[position] : ~states'[position][k].locked]_vars

\* C15: a move made while the Entropy Buffer used since the last move is
\* active gains 1 entropy, every other move gains 2 (up to the maximum 100).
C15_BufferHalvesNextGain ==
    [][IsMove =>
          current' = Min(100, current
                              + (IF hasEffect(effects, "entropy-buffer") THEN 1 ELSE 2))]_vars

\* C16: a handleMove at a node without outgoing edges fails and leaves the
\* position, the entropy, the edge weights and every active effect (its
\* duration included) as they were.
C16_FailedMoveChangesNothing ==
    [][moveFailed' =>
          /\ states[position] = << >>
          /\ position' = position
          /\ current' = current /\ entropyState' = entropyState
          /\ entropyReductionFactor' = entropyReductionFactor
          /\ effects' = effects
          /\ states' = states]_vars

\* C16 witness: a move failed at the Gateway while a timed effect was active
\* and entropy had been gained.
C16_Witness ==
    /\ moveFailed
    /\ current > 0
    /\ \E i \in DOMAIN effects : effects[i].duration = Some(1)

\* the graph A -> B (weight 1), B -> C (weight 1), C without outgoing edges
Chain == <<<<Transition(2, One)>>, <<Transition(3, One)>>, << >>>>

\* C17: on the chain graph every move from A ends at B and every move from B
\* ends at C, whatever the draw, and a move at C fails leaving the agent at C;
\* so an agent started at A is at B after one move, at C after two, and its
\* third move fails.
C17_ChainWalk ==
    [][(position # 0 /\ SubSeq(states, 1, 3) = Chain) =>
          /\ position = 1 => (position' = 2 /\ ~moveFailed')
          /\ position = 2 => (position' = 3 /\ ~moveFailed')
          /\ position = 3 => (position' = 3 /\ moveFailed')]_vars

\* C17 witness: the agent started at A stands at C after a failed move.
C17_Witness == position = 3 /\ moveFailed /\ SubSeq(states, 1, 3) = Chain

\* C18: in a generated graph every node, the Gateway included, has an
\* outgoing or an incoming edge.
C18_NoIsolatedNode ==
    \A i \in DOMAIN states : states[i] # << >> \/ hasIncoming(states, i)

\* C18 witness: a generated graph with a biome that has no outgoing edge
\* (incoming ones only) and a biome that has a single outgoing edge.
C18_Witness ==
    /\ states # << >>
    /\ \E i \in 1..(Len(states) - 1) : states[i] = << >>
    /\ \E i \in 1..(Len(states) - 1) : Len(states[i]) = 1

\* C19: the Gateway has no outgoing edge, in the generated graph and after
\* any moves, entropy updates and item uses.
C19_GatewayHasNoOutgoingEdge == states # << >> => states[Gateway] = << >>

\* C19 witness: the player stands at the Gateway, an item was used there and
\* a re-perturbation pass has run.
C19_Witness ==
    /\ position # 0
    /\ position = Gateway
    /\ effects # << >>
    /\ current >= 31

\* C20: in every generated graph the Gateway is reachable, along outgoing
\* edges, from the reference node that was used to place it.
C20_GatewayReachableFromReference ==
    states # << >> =>
        Gateway \in DOMAIN bfsDistances(states, <<[state |-> candidate, distance |-> 0]>>,
                                        [b \in {candidate} |-> 0])

\* the targets of every node's edges, in stored order
Topology(g) == [i \in DOMAIN g |-> [k \in DOMAIN g[i] |-> g[i][k].to]]

C25_GatewayOnlyWithinItsInterval ==
    [][(IsMove /\ position' = Gateway) =>
          \E k \in DOMAIN states[position] :
              /\ states[position][k].to = Gateway
              /\ RLeq(drawn', cumulativeWeight(states[position], k))
              /\ k > 1 => RLess(cumulativeWeight(states[position], k - 1), drawn')]_vars

\* C26 as stated: in every generated graph every node other than the Gateway
\* has at least one outgoing edge.
C26_NoDeadEndButGateway ==
    \A i \in 1..(Len(states) - 1) : Len(states[i]) >= 1

\* C26 amended: a node other than the Gateway may be left without outgoing
\* edges, but only when an edge of another node leads into it.
C26_DeadEndsHaveAnEntry ==
    \A i \in 1..(Len(states) - 1) :
        Len(states[i]) = 0 =>
            \E j \in (1..(Len(states) - 1)) \ {i} : \E k \in DOMAIN states[j] : states[j][k].to = i

\* C26 witness: a generated graph in which a node other than the Gateway has
\* no outgoing edge and is the target of another node's edge.
C26_Witness ==
    \E i \in 1..(Len(states) - 1) :
        /\ Len(states[i]) = 0
        /\ \E j \in 1..(Len(states) - 1) : \E k \in DOMAIN states[j] : states[j][k].to = i

\* baseWeight x (1 + sign x percent / 100) for each edge, divided by the sum of
\* these values over all edges
PerturbedShare(base, percent, sign) ==
    LET scaled == [k \in DOMAIN base |->
                      RMul(base[k], Norm(100 + sign[k] * percent, 100))]
    IN  [k \in DOMAIN base |-> RDiv(scaled[k], RSum(scaled))]

AllZero(g) == \A k \in DOMAIN FlatWeights(g) : FlatWeights(g)[k] = Zero

\* C28: a pass fired by update() never runs in the Stable regime, and the
\* weights become all 0 only by a call of processTransitions() made outside
\* update() while current < 31.
C28_UpdateNeverZeroes ==
    [][/\ (passes' >= 1 /\ current' # current) =>
              (entropyState' # "Stable" /\ ~AllZero(states'))
       /\ (states # << >> /\ ~AllZero(states) /\ AllZero(states')) =>
              (current' = current /\ current < 31 /\ entropyState = "Stable")]_vars

\* C28 witness: update() calls have left current at a value from 1 to 30 and
\* a direct processTransitions() call has then zeroed every weight.
C28_Witness ==
    /\ states # << >>
    /\ AllZero(states)
    /\ current \in 1..30
    /\ passes = 1

\* the sum of the first k weights of edge list ts
Cumulative(ts, k) == RSum([j \in 1..k |-> ts[j].weight])

\* C29: a move made with draw r from a node with outgoing edges goes to the
\* target of the first edge, in stored order, whose cumulative weight is
\* >= r, and to the target of the last edge when no cumulative weight reaches
\* r; the new position is always the target of one of the node's edges.
C29_FirstEdgeReachingDraw ==
    [][(position # 0 /\ drawn' # << >>) =>
          LET ts == states[position]
              r == drawn'
              reaching == {k \in DOMAIN ts : RLeq(r, Cumulative(ts, k))}
          IN  /\ ts # << >>
              /\ reaching # {} =>
                     \E k \in reaching :
                         (\A j \in reaching : k <= j) /\ position' = ts[k].to
              /\ reaching = {} => position' = ts[Len(ts)].to
              /\ \E k \in DOMAIN ts : position' = ts[k].to]_vars

\* C29 witness: a move has just been made through the last-edge fallback:
\* the draw exceeds the weight sum of the only node with an edge into the
\* new position, and the move changed no weight.
C29_Witness ==
    /\ position # 0
    /\ drawn # << >>
    /\ passes = 0
    /\ removed = {}
    /\ \E i \in DOMAIN states :
           /\ Len(states[i]) >= 2
           /\ states[i][Len(states[i])].to = position
           /\ RLess(SumOfWeights(states[i]), drawn)
           /\ \A j \in DOMAIN states : j # i => ~\E k \in DOMAIN states[j] : states[j][k].to = position

\* the nodes whose edge weights a step changes
Reweighted == {i \in DOMAIN states : Weights(states'[i]) # Weights(states[i])}

\* C30: an item's weight primitives (bias toward biomes, bias toward
\* variants, swap of the top two, equalize), applied to a node whose outgoing
\* weights sum to 1, leave that node's weights non-negative and summing to 1,
\* and change no weight of any other node.
C30_PrimitivesKeepNodeSum ==
    [][(states # << >> /\ found' = found + 1) =>
          /\ Cardinality(Reweighted) <= 1
          /\ \A i \in Reweighted : \E e \in DOMAIN effects' : effects'[e].stateBiome = Some(i)
          /\ \A i \in DOMAIN states :
                 RSum(Weights(states[i])) = One =>
                     /\ RSum(Weights(states'[i])) = One
                     /\ \A k \in DOMAIN states'[i] : RLeq(Zero, states'[i][k].weight)]_vars

\* C30 witness: an item has changed the weights of a node with two edges,
\* which still sum to 1.
C30_Witness ==
    \E id \in DOMAIN tracked :
        /\ tracked[id].at # 0
        /\ Len(states[tracked[id].at]) >= 2
        /\ tracked[id].before # Weights(states[tracked[id].at])
        /\ RSum(tracked[id].before) = One
        /\ SumOfWeights(states[tracked[id].at]) = One

\* C23: while the controller is playing some tick chain is live, and when a
\* decision request fails while it is playing and the agent stands at a node
\* with outgoing edges other than the Gateway, a move along one of the node's
\* edges is made and the next tick is scheduled.
C23_FailedRequestStillMoves ==
    /\ [](isPlaying => \E c \in DOMAIN chains : Live(chains[c]))
    /\ [][\A c \in DOMAIN chains :
              (/\ isPlaying
               /\ chains[c].phase = "request"
               /\ chains'[c].phase # "request"
               /\ rawResponse' = Some(<< >>)
               /\ BiomeOf(states, position) # "Gateway"
               /\ states[position] # << >>)
              => /\ decision'[1].action = "move"
                 /\ drawn' # << >>
                 /\ ~moveFailed'
                 /\ \E k \in DOMAIN states[position] : position' = states[position][k].to
                 /\ isPlaying'
                 /\ chains'[c].phase = "timer"
                 /\ intervalId' = c]_vars

\* C23 witness: a decision request has failed, the move was made all the same
\* and the chain's next tick is scheduled.
C23_Witness ==
    /\ isPlaying
    /\ rawResponse = Some(<< >>)
    /\ decision = Some(errorDecision)
    /\ drawn # << >>
    /\ \E c \in DOMAIN chains : chains[c].phase = "timer" /\ intervalId = c

\* C24: once stop() has been called while a tick chain was awaiting its
\* decision request or executing its action, and the controller has not been
\* started again, no later step of that chain uses an item, makes a move or
\* schedules a tick: the chain just ends.
C24_NothingAppliedAfterStop ==
    [][\A c \in DOMAIN chains :
          (chains[c].stopped /\ ~isPlaying /\ chains'[c] # chains[c]) =>
              /\ chains'[c].phase = "ended"
              /\ UNCHANGED <<states, position, current, effects, inventory, drawn, moveFailed>>]_vars

\* the nodes reached from node from in at most hops steps along edges
RECURSIVE Within(_, _, _)
Within(g, from, hops) ==
    IF hops = 0 THEN {from}
    ELSE LET near == Within(g, from, hops - 1)
         IN  near \cup UNION {{g[i][k].to : k \in DOMAIN g[i]} : i \in near}

\* the nodes with an edge into the Gateway
GatewaySources == {i \in DOMAIN states : \E k \in DOMAIN states[i] : states[i][k].to = Gateway}

\* the non-Gateway nodes that have an edge to a non-Gateway node
WithOutgoing ==
    {i \in DOMAIN states \ {Gateway} : \E k \in DOMAIN states[i] : states[i][k].to # Gateway}

\* the nodes three hops or more from the reference node (never reached ones
\* included) that have an outgoing edge
FarWithOutgoing == WithOutgoing \ Within(states, candidate, 2)

\* C31: in a generated graph every source of an edge into the Gateway is at
\* BFS hop-distance 3 or more from the reference node (a node the search never
\* reaches counts as farther than any distance); when no node with an outgoing
\* edge is that far, the sources are non-Gateway nodes with outgoing edges.
C31_GatewaySourcesAreFar ==
    states # << >> =>
        IF FarWithOutgoing # {}
        THEN GatewaySources \subseteq FarWithOutgoing
        ELSE GatewaySources \subseteq WithOutgoing

\* C31 witness: a generated graph whose Gateway source is reached from the
\* reference node, in exactly three hops.
C31_Witness ==
    /\ states # << >>
    /\ GatewaySources # {}
    /\ GatewaySources \subseteq Within(states, candidate, 3) \ Within(states, candidate, 2)

\* C32: in a generated graph every node with an edge into the Gateway also has
\* an edge to a node that is not the Gateway.
C32_GatewayNeverTheOnlyEdge == states # << >> => GatewaySources \subseteq WithOutgoing

\* C32 witness: a generated graph in which a node without any outgoing edge
\* lies three hops or more from the reference node, and the Gateway hangs on
\* another node at that distance.
C32_Witness ==
    /\ states # << >>
    /\ \E i \in DOMAIN states \ (Within(states, candidate, 2) \cup {Gateway}) : states[i] = << >>
    /\ GatewaySources # {}
    /\ GatewaySources \subseteq FarWithOutgoing

\* C33: in a generated graph no edge leads back to its own node and no node
\* has two edges to the same target, so no two edges of the graph have the
\* same getTransitionId.
C33_EdgeIdsUnique ==
    states # << >> =>
        \A i \in DOMAIN states : \A k \in DOMAIN states[i] :
            /\ states[i][k].to # i
            /\ \A j \in DOMAIN states : \A l \in DOMAIN states[j] :
                   getTransitionId(i, states[i][k].to) = getTransitionId(j, states[j][l].to)
                       => (i = j /\ k = l)

\* C33 witness: a generated graph with a node that kept all its drawn targets
\* and got a Gateway edge besides, and two edges into the Gateway.
C33_Witness ==
    /\ states # << >>
    /\ Cardinality(GatewaySources) = 2
    /\ \E i \in GatewaySources : Len(states[i]) = Len(states) - 1

\* C34: every generated graph has an edge into the Gateway, because some
\* non-Gateway node has an outgoing edge once the connectivity repair is done.
C34_GatewayHasAnIncomingEdge == states # << >> => (WithOutgoing # {} /\ GatewaySources # {})

\* C34 witness: a generated graph in which a single node has outgoing edges,
\* and the Gateway hangs on it.
C34_Witness ==
    /\ states # << >>
    /\ Cardinality(WithOutgoing) = 1
    /\ GatewaySources = WithOutgoing

LiveChains == {c \in DOMAIN chains : Live(chains[c])}

\* C36: at most one autoplay tick chain is live at any time, under every
\* interleaving of start(), stop() and completions of decision requests: there
\* is never more than one outstanding request or pending tick timer.
C36_AtMostOneLiveChain == Cardinality(LiveChains) <= 1

\* C37: during autoplay, when a tick runs while the player stands on the
\* Gateway or on a node without outgoing edges, it stops the controller,
\* requests no decision and ends the chain without attempting a move.
C37_TickStopsAtGateway ==
    [][\A c \in DOMAIN chains :
          (/\ isPlaying
           /\ chains[c].phase = "timer"
           /\ chains'[c].phase # "timer"
           /\ states[position] = << >>)
          => /\ ~isPlaying'
             /\ requests' = requests
             /\ chains'[c].phase = "ended"]_vars

\* a step of addEffect with an effect whose id was active
Replaced(id) ==
    /\ found' = found + 1
    /\ id \in EffectIds(effects)
    /\ tracked'[id].uses = tracked[id].uses + 1

\* C38: getActiveEffects never holds two effects with the same id; addEffect
\* with an id that is active puts the new effect in the old one's place and
\* leaves the others alone, restores none of the replaced effect's stored
\* weights (every node but the one the item is used on keeps its edge list,
\* and on that node the new effect's snapshot is of the weights in force just
\* before) and does not run the replaced effect's onExpire (edges it had
\* locked elsewhere stay locked).
C38_SameIdReplaces ==
    /\ [](\A i, j \in DOMAIN effects : effects[i].id = effects[j].id => i = j)
    /\ [][\A id \in EffectIds(effects) :
              Replaced(id) =>
                  LET i == IndexOf(effects, id)
                      old == effects[i]
                      now == tracked'[id].at
                  IN  /\ Len(effects') = Len(effects)
                      /\ effects'[i].id = id
                      /\ \A j \in DOMAIN effects \ {i} : effects'[j] = effects[j]
                      /\ \A n \in DOMAIN states \ {now} : states'[n] = states[n]
                      /\ effects'[i].modifiedTransitions # Undefined =>
                             \A k \in DOMAIN states[now] :
                                 effects'[i].modifiedTransitions[1][
                                     getTransitionId(now, states[now][k].to)]
                                         = states[now][k].weight
                      /\ (old.onExpire = "unlock" /\ old.scope # now) =>
                             \A k \in DOMAIN states[old.scope] :
                                 states'[old.scope][k].locked]_vars

\* C38 witness: an item was used a second time while its effect was active,
\* on another node; the node of the first use still carries the changed
\* weights, and no active effect holds a snapshot of it.
C38_Witness ==
    \E id \in DOMAIN tracked :
        /\ tracked[id].uses = 2
        /\ Len(effects) = 1
        /\ \E n \in DOMAIN states \ {tracked[id].at} :
               /\ \E k \in DOMAIN states[n] : states[n][k].modifiedByEffect
               /\ Touching(effects, n) = {}

\* the edge of the player's node that a move to node to takes
TakenEdge(to) ==
    states[position][CHOOSE k \in DOMAIN states[position] : states[position][k].to = to]

\* C39: the node_change entry written for a move has modifiedByItem = true
\* exactly when the taken edge was marked as modified by an item effect in the
\* weights the draw was made against, and its odds is that edge's weight at
\* the time of the draw (as a percentage).
C39_JournalRecordsTheDraw ==
    [][(IsMove /\ journal' # << >>) =>
          /\ journal'[1].modifiedByItem = TakenEdge(position').modifiedByEffect
          /\ journal'[1].odds = RMul(TakenEdge(position').weight, <<100, 1>>)]_vars
====
